---- MODULE Spec2Model ----
(***************************************************************************)
(* Model of the trashformer arm: arm/servo.py (Servo), arm/pca9685_driver.py *)
(* (PCA9685, the pulse output every Servo is given) and                     *)
(* arm/arm_controller.py (ArmController).                                  *)
(*                                                                         *)
(* Python floats are modelled as exact rationals <<n, d>> (d > 0, reduced). *)
(* One action is one public call, run to its return or to the exception    *)
(* that leaves it; `out` is what the call sent to the PCA9685, the waits    *)
(* it made and the log lines the properties refer to, in program order.    *)
(***************************************************************************)
EXTENDS Integers, Sequences, FiniteSets, TLC

VARIABLES
    servo,              \* SpecJoint: the Servo object (configuration and state)
    servos,             \* ArmController.servos: joint name -> Servo
    calib,              \* ArmController._<name>_offset / _<name>_invert
    poses,              \* ArmController.poses
    is_enabled,         \* ArmController.is_enabled
    current_pose_name,  \* ArmController.current_pose_name
    disable_requested,  \* history: disable()/emergency_stop() called since the last enable()
    call,               \* the last call: operation, arguments, state before it
    out,                \* events of the last call, in program order
    result              \* what the last call returned: "True", "False", "None" or "raised"

vars == <<servo, servos, calib, poses, is_enabled, current_pose_name,
          disable_requested, call, out, result>>

None == <<>>

-----------------------------------------------------------------------------
(* Exact rational arithmetic standing for Python float arithmetic.         *)

\* a local variable: the value v bound once for the code F that follows it
Let1(v, F(_)) == F(v)
Let2(v, w, F(_, _)) == F(v, w)

Abs(n) == IF n < 0 THEN -n ELSE n

RECURSIVE GCD(_, _)
GCD(a, b) == IF b = 0 THEN a ELSE GCD(b, a % b)

Q(n, d) ==
    Let1(GCD(Abs(n), Abs(d)),
         LAMBDA g : IF d < 0 THEN <<-(n \div g), -(d \div g)>> ELSE <<n \div g, d \div g>>)

I(n) == <<n, 1>>

\* sums over the least common denominator, products reduced crosswise first,
\* so that no intermediate value leaves the checker's integers
RAdd(x, y) ==
    Let1(GCD(x[2], y[2]),
         LAMBDA g : Q(x[1] * (y[2] \div g) + y[1] * (x[2] \div g), (x[2] \div g) * y[2]))
RNeg(x) == <<-x[1], x[2]>>
RSub(x, y) == RAdd(x, RNeg(y))
RMul(x, y) ==
    Let2(Q(x[1], y[2]), Q(y[1], x[2]), LAMBDA a, b : Q(a[1] * b[1], a[2] * b[2]))
RDiv(x, y) == RMul(x, Q(y[2], y[1]))

\* x < y compared by integer parts, then by the reciprocals of the remainders
RECURSIVE RLt(_, _)
RLt(x, y) ==
    LET qx == x[1] \div x[2]
        qy == y[1] \div y[2]
        rx == x[1] - qx * x[2]
        ry == y[1] - qy * y[2]
    IN  IF qx # qy THEN qx < qy
        ELSE IF ry = 0 THEN FALSE
        ELSE IF rx = 0 THEN TRUE
        ELSE RLt(<<y[2], ry>>, <<x[2], rx>>)
RLe(x, y) == ~RLt(y, x)
RAbs(x) == <<Abs(x[1]), x[2]>>
RMax(x, y) == IF RLt(x, y) THEN y ELSE x
RMin(x, y) == IF RLt(y, x) THEN y ELSE x

\* max and min of two ints
IMax(a, b) == IF a < b THEN b ELSE a
IMin(a, b) == IF b < a THEN b ELSE a

\* int(x): truncation toward zero
IntTrunc(x) == IF x[1] >= 0 THEN x[1] \div x[2] ELSE -((-x[1]) \div x[2])

\* int(round(x)): Python 3 rounds a tie to the even neighbour
IntRound(x) ==
    LET f == x[1] \div x[2]
        r == 2 * (x[1] - f * x[2])
    IN  IF r < x[2] THEN f
        ELSE IF r > x[2] THEN f + 1
        ELSE IF f % 2 = 0 THEN f ELSE f + 1

\* _clamp(x, lo, hi) == max(lo, min(hi, x))
clamp(x, lo, hi) == RMax(lo, RMin(hi, x))

-----------------------------------------------------------------------------
(* Events of `out`: <<kind, channel, n, d>>.                               *)

EvPulse(ch, us) == <<"pulse", ch, us, 1>>      \* PCA9685.set_pulse_width(ch, us) accepted
EvDisable(ch) == <<"disable", ch, 0, 1>>       \* a channel-disable accepted by the output
EvWait(t) == <<"wait", -1, t[1], t[2]>>        \* time.sleep(t), t = n/d seconds
EvSpeed(ch, v) == <<"speed", ch, v[1], v[2]>>  \* Servo.move_to debug line: speed
EvMoveTime(ch, t) == <<"move_time", ch, t[1], t[2]>>  \* same line: move_time
EvStep(i) == <<"step", -1, i, 1>>              \* execute_sequence "Step i/n"
EvSeqFailed(i) == <<"seq_failed", -1, i, 1>>   \* execute_sequence "Sequence failed at step i"

-----------------------------------------------------------------------------
(* PCA9685 (arm/pca9685_driver.py).  A call context ctx carries the Servo  *)
(* record s, the events so far, the number of bus transfers made, the      *)
(* transfer that the bus fails (fail, 0 for none) and whether an exception *)
(* is propagating (raised); once raised, nothing further runs.  over marks *)
(* a call left unexplored because a smoothed move in it needs more than    *)
(* MaxSteps steps.                                                         *)

pwm_frequency == 50

MaxSteps == 40

Ctx(s, fail) ==
    [s |-> s, out |-> <<>>, calls |-> 0, fail |-> fail, raised |-> FALSE, over |-> FALSE]

Raise(ctx) == [ctx EXCEPT !.raised = TRUE]

Emit(ctx, ev) == IF ctx.raised THEN ctx ELSE [ctx EXCEPT !.out = Append(@, ev)]

\* PCA9685.set_pwm(channel, 0, off): range checks, then the bus transfer
PCA9685_set_pwm(ctx, ch, off, ev) ==
    IF ctx.raised THEN ctx
    ELSE IF ch < 0 \/ ch > 15 THEN Raise(ctx)
    ELSE IF off < 0 \/ off > 4095 THEN Raise(ctx)
    ELSE IF ctx.calls + 1 = ctx.fail THEN Raise([ctx EXCEPT !.calls = @ + 1])
    ELSE [ctx EXCEPT !.calls = @ + 1, !.out = Append(@, ev)]

\* PCA9685.set_pulse_width(channel, pulse_width_us)
PCA9685_set_pulse_width(ctx, ch, us) ==
    IF ctx.raised THEN ctx
    ELSE IF us < 0 \/ us > 10000 THEN Raise(ctx)
    ELSE PCA9685_set_pwm(ctx, ch, (us * 4096 * pwm_frequency) \div 1000000, EvPulse(ch, us))

\* PCA9685 defines no disable_channel: the attribute lookup raises AttributeError
PCA9685_disable_channel(ctx, ch) == Raise(ctx)

\* time.sleep(t)
Sleep(ctx, t) == Emit(ctx, EvWait(t))

\* if cond: time.sleep(t)
SleepIf(cond, ctx, t) == IF cond THEN Sleep(ctx, t) ELSE ctx

-----------------------------------------------------------------------------
(* Servo (arm/servo.py).                                                   *)

\* Servo.__init__: the configuration p, then the state tracking fields
Servo_init(p) ==
    [channel |-> p.channel, continuous |-> p.continuous,
     min_angle |-> p.min_angle, max_angle |-> p.max_angle,
     min_pulse |-> p.min_pulse, max_pulse |-> p.max_pulse,
     home_angle |-> p.home_angle, neutral_angle |-> p.neutral_angle,
     invert |-> p.invert, offset_deg |-> p.offset_deg, smooth_hz |-> p.smooth_hz,
     stop_pulse |-> p.stop_pulse, speed_pulse_range |-> p.speed_pulse_range,
     degrees_per_second |-> p.degrees_per_second, min_move_deg |-> p.min_move_deg,
     current_angle |-> None, target_angle |-> None,
     estimated_position |-> p.home_angle]

\* the defaults of Servo.__init__'s parameters
ServoDefaults ==
    [channel |-> 0, continuous |-> FALSE,
     min_angle |-> I(0), max_angle |-> I(180), min_pulse |-> 500, max_pulse |-> 2500,
     home_angle |-> I(0), neutral_angle |-> I(0), invert |-> FALSE, offset_deg |-> I(0),
     smooth_hz |-> I(10), stop_pulse |-> 1500, speed_pulse_range |-> 100,
     degrees_per_second |-> I(120), min_move_deg |-> I(1)]

\* fault seeded for C3: a clamp with no upper bound
Servo_clamp_angle_NoUpper(s, a) == IF RLt(a, s.min_angle) THEN s.min_angle ELSE a

\* Servo._clamp_angle
Servo_clamp_angle(s, a) ==
    IF RLt(a, s.min_angle) THEN s.min_angle
    ELSE IF RLt(s.max_angle, a) THEN s.max_angle
    ELSE a

\* fault seeded for C13: a calibration that folds a negative angle back
Servo_apply_calibration_Folded(s, angle) ==
    Let1(RAbs(RAdd(angle, s.offset_deg)),
         LAMBDA a : IF s.invert THEN RSub(s.max_angle, RSub(a, s.min_angle)) ELSE a)

\* fault seeded for C14: a mirror that leaves min_angle out
Servo_apply_calibration_MirrorNoMin(s, angle) ==
    Let1(RAdd(angle, s.offset_deg),
         LAMBDA a : IF s.invert THEN RSub(s.max_angle, a) ELSE a)

Servo_apply_calibration(s, angle) ==
    Let1(RAdd(angle, s.offset_deg),
         LAMBDA a : IF s.invert THEN RSub(s.max_angle, RSub(a, s.min_angle)) ELSE a)

\* fault seeded for C4: the linear map without its two clamps
Servo_angle_to_pulse_Unclamped(s, angle) ==
    IF s.max_angle = s.min_angle
    THEN IntRound(Q(s.min_pulse + s.max_pulse, 2))
    ELSE IntRound(RAdd(I(s.min_pulse),
                       RMul(RDiv(RSub(angle, s.min_angle), RSub(s.max_angle, s.min_angle)),
                            I(s.max_pulse - s.min_pulse))))

\* fault seeded for C16: the pulse truncated, not rounded
Servo_angle_to_pulse_Truncated(s, angle) ==
    IF s.max_angle = s.min_angle
    THEN IntRound(Q(s.min_pulse + s.max_pulse, 2))
    ELSE IMax(s.min_pulse,
              IMin(s.max_pulse,
                   IntTrunc(RAdd(I(s.min_pulse),
                                 RMul(clamp(RDiv(RSub(angle, s.min_angle),
                                                 RSub(s.max_angle, s.min_angle)),
                                            I(0), I(1)),
                                      I(s.max_pulse - s.min_pulse))))))

\* Servo._angle_to_pulse
Servo_angle_to_pulse(s, angle) ==
    IF s.max_angle = s.min_angle
    THEN IntRound(Q(s.min_pulse + s.max_pulse, 2))
    ELSE IMax(s.min_pulse,
              IMin(s.max_pulse,
                   IntRound(RAdd(I(s.min_pulse),
                                 RMul(clamp(RDiv(RSub(angle, s.min_angle),
                                                 RSub(s.max_angle, s.min_angle)),
                                            I(0), I(1)),
                                      I(s.max_pulse - s.min_pulse))))))

\* fault seeded for C21: no percent scale, every speed above 1 is full speed
Servo_normalize_speed_NoPercent(speed) ==
    IF speed = None THEN I(1)
    ELSE IF RLe(speed, I(0)) THEN I(0)
    ELSE IF RLe(speed, I(1)) THEN speed
    ELSE I(1)

Servo_normalize_speed(speed) ==
    IF speed = None THEN I(1)
    ELSE IF RLe(speed, I(0)) THEN I(0)
    ELSE IF RLe(speed, I(1)) THEN speed
    ELSE IF RLe(speed, I(100)) THEN RDiv(speed, I(100))
    ELSE I(1)

\* Servo.stop
Servo_stop(ctx) ==
    IF ctx.s.continuous
    THEN PCA9685_set_pulse_width(ctx, ctx.s.channel, ctx.s.stop_pulse)
    ELSE ctx

\* the three assignments that record an arrival at target
Arrived(ctx, target) ==
    IF ctx.raised THEN ctx
    ELSE [ctx EXCEPT !.s.current_angle = target, !.s.target_angle = target,
                     !.s.estimated_position = target]

\* the two assignments that record a position servo's angle
Positioned(ctx, a) ==
    IF ctx.raised THEN ctx
    ELSE [ctx EXCEPT !.s.current_angle = a, !.s.target_angle = a]

\* fault seeded for C22: a direction that ignores invert
Servo_move_pulse_NoInvert(s, delta, speed_factor) ==
    s.stop_pulse
        + (IF RLt(I(0), delta) THEN 1 ELSE -1)
          * IMax(1, IntRound(RMul(I(s.speed_pulse_range), speed_factor)))

\* direction and drive pulse of a continuous move
Servo_move_pulse(s, delta, speed_factor) ==
    s.stop_pulse
        + (IF RLt(I(0), delta) = s.invert THEN -1 ELSE 1)
          * IMax(1, IntRound(RMul(I(s.speed_pulse_range), speed_factor)))

\* fault seeded for C9: a drive time that ignores the speed factor
Servo_move_time_Unscaled(s, abs_delta, speed_factor) ==
    RDiv(abs_delta, s.degrees_per_second)

\* duration of a continuous move
Servo_move_time(s, abs_delta, speed_factor) ==
    RDiv(abs_delta, RMax(Q(1, 1000000), RMul(s.degrees_per_second, speed_factor)))

\* fault seeded for C10: a timed move with no deadband
Servo_move_continuous_NoDeadband(ctx, target_angle, speed) ==
    Let2(Servo_clamp_angle(ctx.s, target_angle), Servo_normalize_speed(speed),
         LAMBDA target, speed_factor :
    Let1(RSub(target, ctx.s.estimated_position), LAMBDA delta :
        IF ctx.raised THEN ctx
        ELSE IF RAbs(delta) = I(0) THEN Arrived(ctx, target)
        ELSE IF RLe(speed_factor, I(0)) THEN Servo_stop(ctx)
        ELSE Arrived(
                 PCA9685_set_pulse_width(
                     Sleep(PCA9685_set_pulse_width(ctx, ctx.s.channel,
                               Servo_move_pulse(ctx.s, delta, speed_factor)),
                           Servo_move_time(ctx.s, RAbs(delta), speed_factor)),
                     ctx.s.channel, ctx.s.stop_pulse),
                 target)))

\* Servo._move_continuous
Servo_move_continuous(ctx, target_angle, speed) ==
    Let2(Servo_clamp_angle(ctx.s, target_angle), Servo_normalize_speed(speed),
         LAMBDA target, speed_factor :
    Let1(RSub(target, ctx.s.estimated_position), LAMBDA delta :
        IF ctx.raised THEN ctx
        ELSE IF RLt(RAbs(delta), ctx.s.min_move_deg) THEN Arrived(ctx, target)
        ELSE IF RLe(speed_factor, I(0)) THEN Servo_stop(ctx)
        ELSE Arrived(
                 PCA9685_set_pulse_width(
                     Sleep(PCA9685_set_pulse_width(ctx, ctx.s.channel,
                               Servo_move_pulse(ctx.s, delta, speed_factor)),
                           Servo_move_time(ctx.s, RAbs(delta), speed_factor)),
                     ctx.s.channel, ctx.s.stop_pulse),
                 target)))

\* fault seeded for C15: a set_angle that issues nothing when the servo is
\* already recorded at the angle
Servo_set_angle_SkipRepeat(ctx, angle, validate) ==
    Let1(IF validate THEN Servo_clamp_angle(ctx.s, angle) ELSE angle, LAMBDA a :
        IF ctx.raised THEN ctx
        ELSE IF ctx.s.continuous THEN Servo_move_continuous(ctx, a, None)
        ELSE IF ctx.s.current_angle = a THEN ctx
        ELSE Positioned(
                 PCA9685_set_pulse_width(ctx, ctx.s.channel,
                     Servo_angle_to_pulse(ctx.s, Servo_apply_calibration(ctx.s, a))),
                 a))

\* Servo.set_angle
Servo_set_angle(ctx, angle, validate) ==
    Let1(IF validate THEN Servo_clamp_angle(ctx.s, angle) ELSE angle, LAMBDA a :
        IF ctx.raised THEN ctx
        ELSE IF ctx.s.continuous THEN Servo_move_continuous(ctx, a, None)
        ELSE Positioned(
                 PCA9685_set_pulse_width(ctx, ctx.s.channel,
                     Servo_angle_to_pulse(ctx.s, Servo_apply_calibration(ctx.s, a))),
                 a))

\* the smoothing loop of Servo.move_to: samples i..steps
RECURSIVE Servo_move_steps(_, _, _, _, _, _, _)

\* fault seeded for C30: a non-blocking move that jumps to the target
Servo_move_steps_Jump(ctx, start, delta, steps, step_delay, blocking, i) ==
    IF i > steps \/ ctx.raised THEN ctx
    ELSE IF ~blocking THEN Servo_set_angle(ctx, RAdd(start, delta), FALSE)
    ELSE Servo_move_steps(
             SleepIf(i < steps,
                     Servo_set_angle(ctx, RAdd(start, RMul(delta, Q(i, steps))), FALSE),
                     step_delay),
             start, delta, steps, step_delay, blocking, i + 1)

Servo_move_steps(ctx, start, delta, steps, step_delay, blocking, i) ==
    IF i > steps \/ ctx.raised THEN ctx
    ELSE Servo_move_steps(
             SleepIf(blocking /\ i < steps,
                     Servo_set_angle(ctx, RAdd(start, RMul(delta, Q(i, steps))), FALSE),
                     step_delay),
             start, delta, steps, step_delay, blocking, i + 1)

\* fault seeded for C19: the step count rounded to nearest, not truncated
Servo_steps_Rounded(s, move_time) == IMax(IntRound(RMul(move_time, s.smooth_hz)), 1)

\* steps = max(int(move_time * smooth_hz), 1)
Servo_steps(s, move_time) == IMax(IntTrunc(RMul(move_time, s.smooth_hz)), 1)

\* fault seeded for C20: a move nearer than 0.5 degrees that records nothing
Servo_move_to_NoArrival(ctx, angle, speed, blocking) ==
    Let1(Servo_clamp_angle(ctx.s, angle), LAMBDA target :
        IF ctx.raised THEN ctx
        ELSE IF ctx.s.continuous THEN Servo_move_continuous(ctx, target, speed)
        ELSE IF speed = None \/ ctx.s.current_angle = None
             THEN Servo_set_angle(ctx, target, FALSE)
        ELSE Let2(RSub(target, ctx.s.current_angle), RMax(Q(1, 1000000), speed),
                  LAMBDA delta, sp :
                 IF RLt(RAbs(delta), Q(1, 2)) THEN ctx
                 ELSE Let1(RDiv(RAbs(delta), sp), LAMBDA move_time :
                      Let1(Servo_steps(ctx.s, move_time), LAMBDA steps :
                          IF steps > MaxSteps THEN [ctx EXCEPT !.over = TRUE]
                          ELSE Positioned(
                                   Servo_move_steps(
                                       Emit(Emit(ctx, EvSpeed(ctx.s.channel, sp)),
                                            EvMoveTime(ctx.s.channel, move_time)),
                                       ctx.s.current_angle, delta, steps,
                                       RDiv(move_time, I(steps)), blocking, 0),
                                   target)))))

\* Servo.move_to
Servo_move_to(ctx, angle, speed, blocking) ==
    Let1(Servo_clamp_angle(ctx.s, angle), LAMBDA target :
        IF ctx.raised THEN ctx
        ELSE IF ctx.s.continuous THEN Servo_move_continuous(ctx, target, speed)
        ELSE IF speed = None \/ ctx.s.current_angle = None
             THEN Servo_set_angle(ctx, target, FALSE)
        ELSE Let2(RSub(target, ctx.s.current_angle), RMax(Q(1, 1000000), speed),
                  LAMBDA delta, sp :
                 IF RLt(RAbs(delta), Q(1, 2)) THEN Positioned(ctx, target)
                 ELSE Let1(RDiv(RAbs(delta), sp), LAMBDA move_time :
                      Let1(Servo_steps(ctx.s, move_time), LAMBDA steps :
                          IF steps > MaxSteps THEN [ctx EXCEPT !.over = TRUE]
                          ELSE Positioned(
                                   Servo_move_steps(
                                       Emit(Emit(ctx, EvSpeed(ctx.s.channel, sp)),
                                            EvMoveTime(ctx.s.channel, move_time)),
                                       ctx.s.current_angle, delta, steps,
                                       RDiv(move_time, I(steps)), blocking, 0),
                                   target)))))

\* Servo.home, Servo.neutral
Servo_home(ctx, speed, blocking) == Servo_move_to(ctx, ctx.s.home_angle, speed, blocking)
Servo_neutral(ctx, speed, blocking) == Servo_move_to(ctx, ctx.s.neutral_angle, speed, blocking)

\* Servo.get_angle
Servo_get_angle(s) == IF s.continuous THEN s.estimated_position ELSE s.current_angle

\* Servo.disable
Servo_disable(ctx) == PCA9685_disable_channel(ctx, ctx.s.channel)

-----------------------------------------------------------------------------
(* SpecJoint: one Servo driven directly by its caller.                     *)

MaxFail == 1

\* which bus transfer of a call fails (0: none)
Fails == 0 .. MaxFail

\* the same for a call on servo s: a continuous move makes two transfers, the
\* drive pulse and the stop pulse, and either can be the one that fails
FailsFor(s) == IF s.continuous THEN 0 .. MaxFail + 1 ELSE Fails

\* angles a caller passes
Angles == {I(-10), I(0), Q(1, 4), I(3), I(45), I(90), I(180), I(200)}

\* speeds a caller passes to a position servo (degrees per second)
PosSpeeds == {None, I(90), I(1000)}

\* speeds a caller passes to a continuous servo (factor or percent)
ContSpeeds == {None, I(-5), I(0), Q(1, 2), Q(1, 1000), I(50), I(100), I(150)}

SpeedsFor(s) == IF s.continuous THEN ContSpeeds ELSE PosSpeeds

\* constructor arguments of the servos under test; Servo.__init__ checks none
\* of them, so a range of one angle (min_angle = max_angle) is among them
PositionConfigs ==
    {[ServoDefaults EXCEPT !.invert = inv, !.offset_deg = off,
                           !.min_angle = rng[1], !.max_angle = rng[2],
                           !.home_angle = rng[1], !.neutral_angle = rng[3]] :
        inv \in BOOLEAN, off \in {I(-10), I(0), I(10)},
        rng \in {<<I(0), I(180), I(90)>>, <<I(30), I(150), I(45)>>}}
    \cup {[ServoDefaults EXCEPT !.min_angle = I(90), !.max_angle = I(90),
                                !.home_angle = I(90), !.neutral_angle = I(90)]}

ContinuousConfigs ==
    {[ServoDefaults EXCEPT !.continuous = TRUE, !.channel = 1, !.invert = inv,
                           !.min_move_deg = mm, !.max_angle = mx, !.neutral_angle = I(45),
                           !.speed_pulse_range = tune[1], !.degrees_per_second = tune[2]] :
        inv \in BOOLEAN, mm \in {I(1), I(5)}, mx \in {I(90), I(180)},
        tune \in {<<100, I(120)>>}}
    \cup {[ServoDefaults EXCEPT !.continuous = TRUE, !.channel = 1, !.stop_pulse = 1480,
                                !.speed_pulse_range = 120, !.degrees_per_second = I(180)]}

ServoConfigs == PositionConfigs \cup ContinuousConfigs

NoCall == [op |-> "idle"]

ServoCall(op, angle, speed, validate, blocking, fail) ==
    [op |-> op, angle |-> angle, speed |-> speed, validate |-> validate,
     blocking |-> blocking, fail |-> fail, pre |-> servo]

\* the coordinator's variables are not part of SpecJoint
ArmIdle ==
    /\ servos = <<>>
    /\ calib = <<>>
    /\ poses = <<>>
    /\ is_enabled = TRUE
    /\ current_pose_name = None
    /\ disable_requested = FALSE

ArmUnchanged ==
    UNCHANGED <<servos, calib, poses, is_enabled, current_pose_name, disable_requested>>

JointInit ==
    /\ servo \in {Servo_init(p) : p \in ServoConfigs}
    /\ call = NoCall
    /\ out = <<>>
    /\ result = "None"
    /\ ArmIdle

\* the state after a Servo method ended in context c; ret is what it returns
ServoReturns(c, ret) ==
    /\ call.op = "idle"
    /\ ~c.over
    /\ servo' = c.s
    /\ out' = c.out
    /\ result' = IF c.raised THEN "raised" ELSE ret
    /\ ArmUnchanged

ServoSetAngle ==
    \E a \in Angles, v \in BOOLEAN, f \in FailsFor(servo) :
        /\ call' = ServoCall("set_angle", a, None, v, TRUE, f)
        /\ ServoReturns(Servo_set_angle(Ctx(servo, f), a, v), "True")

ServoMoveTo ==
    \E a \in Angles, sp \in SpeedsFor(servo), b \in BOOLEAN, f \in FailsFor(servo) :
        /\ call' = ServoCall("move_to", a, sp, TRUE, b, f)
        /\ ServoReturns(Servo_move_to(Ctx(servo, f), a, sp, b), "True")

ServoHome ==
    \E sp \in SpeedsFor(servo), b \in BOOLEAN, f \in FailsFor(servo) :
        /\ call' = ServoCall("home", servo.home_angle, sp, TRUE, b, f)
        /\ ServoReturns(Servo_home(Ctx(servo, f), sp, b), "True")

ServoNeutral ==
    \E sp \in SpeedsFor(servo), b \in BOOLEAN, f \in FailsFor(servo) :
        /\ call' = ServoCall("neutral", servo.neutral_angle, sp, TRUE, b, f)
        /\ ServoReturns(Servo_neutral(Ctx(servo, f), sp, b), "True")

ServoStop ==
    \E f \in Fails :
        /\ call' = ServoCall("stop", None, None, FALSE, FALSE, f)
        /\ ServoReturns(Servo_stop(Ctx(servo, f)), "None")

ServoDisable ==
    /\ call' = ServoCall("disable", None, None, FALSE, FALSE, 0)
    /\ ServoReturns(Servo_disable(Ctx(servo, 0)), "None")

\* the caller has taken the result; the next call can be made
Return ==
    /\ call.op # "idle"
    /\ call' = NoCall
    /\ out' = <<>>
    /\ result' = "None"
    /\ UNCHANGED servo
    /\ ArmUnchanged

JointNext ==
    \/ ServoSetAngle
    \/ ServoMoveTo
    \/ ServoHome
    \/ ServoNeutral
    \/ ServoStop
    \/ ServoDisable
    \/ Return

SpecJoint == JointInit /\ [][JointNext]_vars

-----------------------------------------------------------------------------
(* ArmController (arm/arm_controller.py).  A call context a carries the    *)
(* controller's fields next to the fields of a Servo call context.         *)

\* insertion order of ArmController.servos
ServoNames == <<"shoulder", "elbow", "gripper">>

default_speed == 50

\* ArmController.__init__: the three Servo constructions; lim gives each joint's
\* angle limits and pulses its (min_pulse, max_pulse)
Arm_init_servos(pulses) ==
    [n \in {"shoulder", "elbow", "gripper"} |->
        Servo_init([ServoDefaults EXCEPT
            !.channel = CASE n = "shoulder" -> 0 [] n = "elbow" -> 1 [] n = "gripper" -> 2,
            !.max_angle = IF n = "shoulder" THEN I(180) ELSE I(90),
            !.min_pulse = pulses[n][1], !.max_pulse = pulses[n][2]])]

\* the context of a controller call made in state st
ArmCtxOf(st, fail) ==
    [servos |-> st.servos, is_enabled |-> st.is_enabled,
     current_pose_name |-> st.current_pose_name,
     out |-> <<>>, calls |-> 0, fail |-> fail, raised |-> FALSE, over |-> FALSE,
     ret |-> "None"]

ArmCtx(fail) ==
    ArmCtxOf([servos |-> servos, is_enabled |-> is_enabled,
              current_pose_name |-> current_pose_name], fail)

\* the Servo call context of joint name inside the controller call a
SCtx(a, name) ==
    [s |-> a.servos[name], out |-> a.out, calls |-> a.calls, fail |-> a.fail,
     raised |-> a.raised, over |-> a.over]

\* the controller call a after a Servo method on joint name ended in c
OnServo(a, name, c) ==
    [a EXCEPT !.servos[name] = c.s, !.out = c.out, !.calls = c.calls,
              !.raised = c.raised, !.over = c.over]

Ret(a, v) == IF a.raised THEN a ELSE [a EXCEPT !.ret = v]

Bool(b) == IF b THEN "True" ELSE "False"

\* _apply_offset_invert
Arm_apply_offset_invert(angle, offset_deg, invert) ==
    Let1(RAdd(angle, offset_deg), LAMBDA a : IF invert THEN RSub(I(180), a) ELSE a)

\* the calibration transform set_angles and move_to_angles apply per joint name
Arm_calibrated(name, angle) ==
    Arm_apply_offset_invert(angle, calib[name].offset_deg, calib[name].invert)

\* ArmController.get_current_angles
Arm_get_current_angles(sv) == [n \in DOMAIN sv |-> Servo_get_angle(sv[n])]

\* the loop of ArmController.set_angles from entry i on
RECURSIVE Arm_set_angles_loop(_, _, _, _, _)
Arm_set_angles_loop(a, angles, validate, i, ok) ==
    IF a.raised THEN a
    ELSE IF i > Len(angles) THEN Ret(a, Bool(ok))
    ELSE LET name == angles[i][1]
         IN  IF name \notin DOMAIN a.servos
             THEN Arm_set_angles_loop(a, angles, validate, i + 1, FALSE)
             ELSE Arm_set_angles_loop(
                      OnServo(a, name, Servo_set_angle(SCtx(a, name),
                                           Arm_calibrated(name, angles[i][2]), validate)),
                      angles, validate, i + 1, ok)

\* ArmController.set_angles
Arm_set_angles(a, angles, validate) ==
    IF a.raised THEN a
    ELSE IF ~a.is_enabled THEN Ret(a, "False")
    ELSE Arm_set_angles_loop(a, angles, validate, 1, TRUE)

\* speed = float(speed) if speed is not None else self.default_speed; max(1.0, speed)
Arm_speed(speed) == RMax(I(1), IF speed = None THEN I(default_speed) ELSE speed)

\* first loop of move_to_angles from entry i on: p = [a, moves, max_time]
RECURSIVE Arm_plan_moves(_, _, _, _)
Arm_plan_moves(p, angles, speed, i) ==
    IF p.a.raised \/ i > Len(angles) THEN p
    ELSE IF angles[i][1] \notin DOMAIN p.a.servos
         THEN Arm_plan_moves(p, angles, speed, i + 1)
    ELSE Let2(Arm_calibrated(angles[i][1], angles[i][2]),
              Servo_get_angle(p.a.servos[angles[i][1]]),
              LAMBDA target, current :
             IF current = None
             THEN Arm_plan_moves(
                      [p EXCEPT !.a = OnServo(p.a, angles[i][1],
                           Servo_set_angle(SCtx(p.a, angles[i][1]), target, TRUE))],
                      angles, speed, i + 1)
             ELSE Let1(RAbs(RSub(target, current)), LAMBDA delta :
                      Arm_plan_moves(
                          [p EXCEPT !.moves = Append(@, <<angles[i][1], target, delta>>),
                                    !.max_time = RMax(@, RDiv(delta, speed))],
                          angles, speed, i + 1)))

\* fault seeded for C24: nothing issued when max_time is 0
Arm_set_moves_Nothing(a, moves, i) == a

\* max_time <= 0: servo.set_angle(target) for every planned move
RECURSIVE Arm_set_moves(_, _, _)
Arm_set_moves(a, moves, i) ==
    IF a.raised \/ i > Len(moves) THEN a
    ELSE Arm_set_moves(OnServo(a, moves[i][1],
                               Servo_set_angle(SCtx(a, moves[i][1]), moves[i][2], TRUE)),
                       moves, i + 1)

\* fault seeded for C7: the derived speed not divided by max_time
Arm_servo_speed_Undivided(delta, max_time) == RMax(I(1), delta)

\* servo_speed = max(1.0, delta / max_time)
Arm_servo_speed(delta, max_time) == RMax(I(1), RDiv(delta, max_time))

\* second loop of move_to_angles: servo.move_to(target, servo_speed, blocking=False)
RECURSIVE Arm_run_moves(_, _, _, _)
Arm_run_moves(a, moves, max_time, i) ==
    IF a.raised \/ i > Len(moves) THEN a
    ELSE Arm_run_moves(
             OnServo(a, moves[i][1],
                     Servo_move_to(SCtx(a, moves[i][1]), moves[i][2],
                                   Arm_servo_speed(moves[i][3], max_time), FALSE)),
             moves, max_time, i + 1)

\* ArmController.move_to_angles
Arm_move_to_angles(a, angles, speed, blocking) ==
    IF a.raised THEN a
    ELSE IF ~a.is_enabled THEN Ret(a, "False")
    ELSE Let1(Arm_plan_moves([a |-> a, moves |-> <<>>, max_time |-> I(0)],
                             angles, Arm_speed(speed), 1),
              LAMBDA p :
             IF p.a.raised THEN p.a
             ELSE IF p.moves = <<>> THEN Ret(p.a, "True")
             ELSE IF RLe(p.max_time, I(0)) THEN Ret(Arm_set_moves(p.a, p.moves, 1), "True")
             ELSE Ret(SleepIf(blocking, Arm_run_moves(p.a, p.moves, p.max_time, 1),
                              p.max_time),
                      "True"))

\* fault seeded for C11: a pose move that ignores the table's angles
Arm_go_to_pose_ZeroMap(a, pose_name, speed, blocking) ==
    IF a.raised THEN a
    ELSE IF pose_name \notin DOMAIN poses THEN Ret(a, "False")
    ELSE Let1(Arm_move_to_angles(a, <<<<"shoulder", I(0)>>>>, speed, blocking), LAMBDA a1 :
             IF ~a1.raised /\ a1.ret = "True"
             THEN [a1 EXCEPT !.current_pose_name = pose_name]
             ELSE a1)

\* ArmController.go_to_pose
Arm_go_to_pose(a, pose_name, speed, blocking) ==
    IF a.raised THEN a
    ELSE IF pose_name \notin DOMAIN poses THEN Ret(a, "False")
    ELSE Let1(Arm_move_to_angles(a, poses[pose_name], speed, blocking), LAMBDA a1 :
             IF ~a1.raised /\ a1.ret = "True"
             THEN [a1 EXCEPT !.current_pose_name = pose_name]
             ELSE a1)

\* the fallback map of home() and neutral()
ZeroAngles == <<<<"shoulder", I(0)>>, <<"elbow", I(0)>>, <<"gripper", I(0)>>>>

\* fault seeded for C18: a fallback that moves the shoulder only
Arm_home_ShoulderOnly(a, speed, blocking) ==
    IF "home" \in DOMAIN poses
    THEN Arm_go_to_pose(a, "home", speed, blocking)
    ELSE Arm_move_to_angles(a, <<<<"shoulder", I(0)>>>>, speed, blocking)

\* ArmController.home
Arm_home(a, speed, blocking) ==
    IF "home" \in DOMAIN poses
    THEN Arm_go_to_pose(a, "home", speed, blocking)
    ELSE Arm_move_to_angles(a, ZeroAngles, speed, blocking)

\* ArmController.neutral
Arm_neutral(a, speed, blocking) ==
    IF "neutral" \in DOMAIN poses
    THEN Arm_go_to_pose(a, "neutral", speed, blocking)
    ELSE Arm_move_to_angles(a, ZeroAngles, speed, blocking)

\* fault seeded for C6: a sequence that goes on after a failed step
RECURSIVE Arm_sequence_loop(_, _, _, _)
Arm_sequence_loop_GoOn(a, sequence, pause_between, i) ==
    IF a.raised THEN a
    ELSE IF i > Len(sequence) THEN Ret(a, "True")
    ELSE Let1(Arm_go_to_pose(Emit(a, EvStep(i)), sequence[i][1],
                             IF Len(sequence[i]) >= 2 THEN sequence[i][2] ELSE None, TRUE),
              LAMBDA a1 :
             IF a1.raised THEN a1
             ELSE IF a1.ret # "True"
                  THEN Arm_sequence_loop(Emit(a1, EvSeqFailed(i)), sequence,
                                         pause_between, i + 1)
             ELSE Arm_sequence_loop(
                      Sleep(a1, IF Len(sequence[i]) >= 3 THEN sequence[i][3]
                                ELSE pause_between),
                      sequence, pause_between, i + 1))

\* the loop of ArmController.execute_sequence from step i on (steps are 1-based
\* in the log lines)
Arm_sequence_loop(a, sequence, pause_between, i) ==
    IF a.raised THEN a
    ELSE IF i > Len(sequence) THEN Ret(a, "True")
    ELSE Let1(Arm_go_to_pose(Emit(a, EvStep(i)), sequence[i][1],
                             IF Len(sequence[i]) >= 2 THEN sequence[i][2] ELSE None, TRUE),
              LAMBDA a1 :
             IF a1.raised THEN a1
             ELSE IF a1.ret # "True" THEN Ret(Emit(a1, EvSeqFailed(i)), "False")
             ELSE Arm_sequence_loop(
                      Sleep(a1, IF Len(sequence[i]) >= 3 THEN sequence[i][3]
                                ELSE pause_between),
                      sequence, pause_between, i + 1))

\* ArmController.execute_sequence
Arm_execute_sequence(a, sequence, pause_between) ==
    Arm_sequence_loop(a, sequence, pause_between, 1)

\* the loop of ArmController.disable over self.servos.values()
RECURSIVE Arm_disable_loop(_, _)
Arm_disable_loop(a, i) ==
    IF a.raised \/ i > Len(ServoNames) THEN a
    ELSE Arm_disable_loop(OnServo(a, ServoNames[i], Servo_disable(SCtx(a, ServoNames[i]))),
                          i + 1)

\* ArmController.disable
Arm_disable(a) ==
    Let1(Arm_disable_loop(a, 1),
         LAMBDA a1 : IF a1.raised THEN a1 ELSE [a1 EXCEPT !.is_enabled = FALSE])

\* ArmController.emergency_stop
Arm_emergency_stop(a) == Arm_disable(a)

\* ArmController.enable
Arm_enable(a) == [a EXCEPT !.is_enabled = TRUE]

-----------------------------------------------------------------------------
(* Spec: one ArmController and its caller.                                 *)

MaxSeqLen == 2

\* data/calibration/servo_limits.json as _servo_pulses reads it: per joint
\* (min_pulse, max_pulse, offset_deg, invert); absent entries are the defaults
NoOverlay == [n \in {"shoulder", "elbow", "gripper"} |-> <<500, 2500, I(0), FALSE>>]

Overlay ==
    [NoOverlay EXCEPT !["shoulder"] = <<520, 2410, I(0), TRUE>>,
                      !["elbow"] = <<600, 2100, I(10), FALSE>>,
                      !["gripper"] = <<500, 2500, I(0), TRUE>>]

\* arm/poses.yaml: pose name -> ordered map joint name -> angle
NoPoses == <<>>

PoseTable ==
    [n \in {"home", "neutral", "ready", "reach"} |->
        CASE n = "home" -> <<<<"shoulder", I(0)>>, <<"elbow", I(0)>>, <<"gripper", I(0)>>>>
          [] n = "neutral" -> <<<<"shoulder", I(90)>>, <<"elbow", I(45)>>>>
          [] n = "ready" -> <<<<"shoulder", I(90)>>, <<"elbow", I(45)>>>>
          [] n = "reach" -> <<<<"base", I(30)>>, <<"elbow", I(90)>>, <<"gripper", I(90)>>>>]

\* the files an arm is constructed from: (calibration, poses)
Installations == {<<NoOverlay, PoseTable>>, <<Overlay, PoseTable>>, <<NoOverlay, NoPoses>>}

PoseNames == {"home", "ready", "reach", "nowhere"}

\* angle maps a caller passes, as ordered (name, angle) entries
AngleMaps ==
    {<<>>,
     <<<<"elbow", I(100)>>>>,
     <<<<"shoulder", I(90)>>, <<"elbow", I(1)>>>>,
     <<<<"elbow", I(45)>>, <<"gripper", I(90)>>>>,
     <<<<"base", I(45)>>>>,
     <<<<"shoulder", I(90)>>, <<"base", I(45)>>, <<"elbow", I(45)>>>>}

\* speeds a caller passes to the controller (degrees per second)
ArmSpeeds == {None, I(90)}

\* steps of a sequence: (pose_name,), (pose_name, speed), (pose_name, speed, pause)
SeqSteps == {<<"home">>, <<"ready", I(90), I(1)>>, <<"nowhere">>}

RECURSIVE SeqsUpTo(_)
SeqsUpTo(n) ==
    IF n = 0 THEN {<<>>}
    ELSE LET shorter == SeqsUpTo(n - 1)
         IN  shorter \cup {Append(q, st) : q \in shorter, st \in SeqSteps}

Sequences == SeqsUpTo(MaxSeqLen)

\* which bus transfer of a controller call fails (0: none)
ArmFails == {0, 1}

ArmCall(op, args) ==
    [op |-> op, args |-> args,
     pre |-> [servos |-> servos, is_enabled |-> is_enabled,
              current_pose_name |-> current_pose_name,
              disable_requested |-> disable_requested]]

Init ==
    /\ \E inst \in Installations :
        LET ov == inst[1]
        IN  /\ servos = Arm_init_servos([n \in DOMAIN ov |-> <<ov[n][1], ov[n][2]>>])
            /\ calib = [n \in DOMAIN ov |-> [offset_deg |-> ov[n][3], invert |-> ov[n][4]]]
            /\ poses = inst[2]
    /\ current_pose_name = None
    /\ is_enabled = TRUE
    /\ disable_requested = FALSE
    /\ servo = <<>>
    /\ call = NoCall
    /\ out = <<>>
    /\ result = "None"

\* the state after a controller method ended in context a
ArmReturns(a) ==
    /\ call.op = "idle"
    /\ ~a.over
    /\ servos' = a.servos
    /\ is_enabled' = a.is_enabled
    /\ current_pose_name' = a.current_pose_name
    /\ out' = a.out
    /\ result' = IF a.raised THEN "raised" ELSE a.ret
    /\ UNCHANGED <<servo, calib, poses>>

ArmSetAngles ==
    \E m \in AngleMaps, v \in BOOLEAN, f \in ArmFails :
        /\ call' = ArmCall("set_angles", [angles |-> m, validate |-> v, fail |-> f])
        /\ ArmReturns(Arm_set_angles(ArmCtx(f), m, v))
        /\ UNCHANGED disable_requested

ArmMoveToAngles ==
    \E m \in AngleMaps, sp \in ArmSpeeds, b \in BOOLEAN, f \in ArmFails :
        /\ call' = ArmCall("move_to_angles",
                           [angles |-> m, speed |-> sp, blocking |-> b, fail |-> f])
        /\ ArmReturns(Arm_move_to_angles(ArmCtx(f), m, sp, b))
        /\ UNCHANGED disable_requested

ArmGoToPose ==
    \E n \in PoseNames, sp \in ArmSpeeds, b \in BOOLEAN, f \in ArmFails :
        /\ call' = ArmCall("go_to_pose",
                           [pose_name |-> n, speed |-> sp, blocking |-> b, fail |-> f])
        /\ ArmReturns(Arm_go_to_pose(ArmCtx(f), n, sp, b))
        /\ UNCHANGED disable_requested

ArmHome ==
    \E sp \in ArmSpeeds, b \in BOOLEAN, f \in {0} :
        /\ call' = ArmCall("home", [speed |-> sp, blocking |-> b, fail |-> f])
        /\ ArmReturns(Arm_home(ArmCtx(f), sp, b))
        /\ UNCHANGED disable_requested

ArmNeutral ==
    \E sp \in ArmSpeeds, b \in BOOLEAN, f \in {0} :
        /\ call' = ArmCall("neutral", [speed |-> sp, blocking |-> b, fail |-> f])
        /\ ArmReturns(Arm_neutral(ArmCtx(f), sp, b))
        /\ UNCHANGED disable_requested

ArmExecuteSequence ==
    \E q \in Sequences, f \in {0} :
        /\ call' = ArmCall("execute_sequence",
                           [sequence |-> q, pause_between |-> Q(1, 2), fail |-> f])
        /\ ArmReturns(Arm_execute_sequence(ArmCtx(f), q, Q(1, 2)))
        /\ UNCHANGED disable_requested

ArmEmergencyStop ==
    /\ call' = ArmCall("emergency_stop", [fail |-> 0])
    /\ ArmReturns(Arm_emergency_stop(ArmCtx(0)))
    /\ disable_requested' = TRUE

ArmDisable ==
    /\ call' = ArmCall("disable", [fail |-> 0])
    /\ ArmReturns(Arm_disable(ArmCtx(0)))
    /\ disable_requested' = TRUE

ArmEnable ==
    /\ call' = ArmCall("enable", [fail |-> 0])
    /\ ArmReturns(Arm_enable(ArmCtx(0)))
    /\ disable_requested' = FALSE

\* the caller has taken the result; the next call can be made
ArmReturn ==
    /\ call.op # "idle"
    /\ call' = NoCall
    /\ out' = <<>>
    /\ result' = "None"
    /\ UNCHANGED <<servo, servos, calib, poses, is_enabled, current_pose_name,
                   disable_requested>>

Next ==
    \/ ArmSetAngles
    \/ ArmMoveToAngles
    \/ ArmGoToPose
    \/ ArmHome
    \/ ArmNeutral
    \/ ArmExecuteSequence
    \/ ArmEmergencyStop
    \/ ArmDisable
    \/ ArmEnable
    \/ ArmReturn

Spec == Init /\ [][Next]_vars

\* an arm whose elbow has been replaced by a continuous-rotation Servo (the
\* arrangement tools/test_arm_full.py looks for in arm.servos["elbow"])
MixedInit ==
    /\ servos = [Arm_init_servos([n \in DOMAIN NoOverlay |->
                                     <<NoOverlay[n][1], NoOverlay[n][2]>>])
                 EXCEPT !["elbow"] = Servo_init([ServoDefaults EXCEPT
                                          !.channel = 1, !.continuous = TRUE,
                                          !.max_angle = I(90)])]
    /\ calib = [n \in DOMAIN NoOverlay |->
                   [offset_deg |-> NoOverlay[n][3], invert |-> NoOverlay[n][4]]]
    /\ poses = PoseTable
    /\ current_pose_name = None
    /\ is_enabled = TRUE
    /\ disable_requested = FALSE
    /\ servo = <<>>
    /\ call = NoCall
    /\ out = <<>>
    /\ result = "None"

SpecMixed == MixedInit /\ [][Next]_vars

-----------------------------------------------------------------------------
(* Properties.                                                             *)

Pulses(o) == SelectSeq(o, LAMBDA e : e[1] = "pulse")
Commands(o) == SelectSeq(o, LAMBDA e : e[1] \in {"pulse", "disable"})
InRange(s, a) == RLe(s.min_angle, a) /\ RLe(a, s.max_angle)
Called == call.op # "idle"

MotionOps == {"set_angles", "move_to_angles", "go_to_pose", "home", "neutral",
              "execute_sequence"}

\* C1: once disable() has been called and until enable() is called, every
\* set_angles, move_to_angles, go_to_pose, home, neutral and execute_sequence
\* call returns false and issues no pulse; is_enabled goes from false to true
\* only in enable().
C1_DisabledRefusesMotion ==
    Called =>
        /\ (call.op \in MotionOps /\ call.pre.disable_requested)
               => (result = "False" /\ Pulses(out) = <<>>)
        /\ (is_enabled /\ ~call.pre.is_enabled) => call.op = "enable"

\* stop_pulse on every continuous joint, then a channel-disable on every joint
RECURSIVE StopEvents(_, _)
StopEvents(sv, i) ==
    IF i > Len(ServoNames) THEN <<>>
    ELSE (IF sv[ServoNames[i]].continuous
          THEN <<EvPulse(sv[ServoNames[i]].channel, sv[ServoNames[i]].stop_pulse)>>
          ELSE <<>>) \o StopEvents(sv, i + 1)

DisableEvents(sv) == [i \in 1 .. Len(ServoNames) |-> EvDisable(sv[ServoNames[i]].channel)]

\* C2: emergency_stop() issues stop_pulse on every continuous joint, then a
\* channel-disable for every joint, and leaves the controller disabled.
C2_EmergencyStopDisables ==
    (Called /\ call.op = "emergency_stop") =>
        /\ Commands(out) = StopEvents(call.pre.servos, 1) \o DisableEvents(call.pre.servos)
        /\ ~is_enabled

AnglesInRange(s) ==
    /\ InRange(s, s.estimated_position)
    /\ s.current_angle # None => InRange(s, s.current_angle)

\* C3 as stated: in every reachable state of a Servo, current_angle (when
\* known) and estimated_position lie within [min_angle, max_angle].
C3_AnglesAlwaysInRange == AnglesInRange(servo)

\* C3 amended: every Servo call that starts with the angles in range leaves
\* them in range, except set_angle(validate=false) on a position servo, which
\* stores the angle as given.
C3_AnglesStayInRange ==
    (/\ Called
     /\ AnglesInRange(call.pre)
     /\ ~(call.op = "set_angle" /\ ~call.validate /\ ~call.pre.continuous))
        => AnglesInRange(servo)

C3_Witness ==
    /\ Called
    /\ call.op = "move_to"
    /\ RLt(servo.max_angle, call.angle)
    /\ call.pre.current_angle # None
    /\ servo.current_angle = servo.max_angle
    /\ result = "True"

NearestBound(s, a) ==
    IF RLt(a, s.min_angle) THEN s.min_angle
    ELSE IF RLt(s.max_angle, a) THEN s.max_angle ELSE a

\* C4: clamp_angle returns the nearest bound for an angle outside
\* [min_angle, max_angle] and an in-range angle unchanged, and
\* set_angle(angle, validate=true) on a position servo issues no pulse width
\* outside [min_pulse, max_pulse], whatever offset_deg and invert are.
C4_ClampedPulse ==
    (Called /\ call.op = "set_angle" /\ call.validate /\ ~servo.continuous) =>
        /\ \A a \in Angles : Servo_clamp_angle(servo, a) = NearestBound(servo, a)
        /\ \A i \in 1 .. Len(out) :
               out[i][1] = "pulse" =>
                   servo.min_pulse <= out[i][3] /\ out[i][3] <= servo.max_pulse
        /\ result = "True" =>
               /\ Len(Pulses(out)) = 1
               /\ servo.current_angle = NearestBound(servo, call.angle)

C4_Witness ==
    /\ Called
    /\ call.op = "set_angle"
    /\ call.validate
    /\ ~servo.continuous
    /\ servo.invert
    /\ servo.offset_deg = I(10)
    /\ call.angle = I(200)
    /\ Pulses(out) = <<EvPulse(servo.channel, servo.min_pulse)>>
    /\ servo.current_angle = servo.max_angle

HasUnknown(m) == \E i \in 1 .. Len(m) : m[i][1] \notin DOMAIN servos
KnownOnly(m) == SelectSeq(m, LAMBDA e : e[1] \in DOMAIN servos)

\* C5: with the controller enabled, set_angles and move_to_angles return false
\* for a map that names an unknown joint, and command the known joints of the
\* map exactly as they would without the unknown entry.
C5_UnknownJointFails ==
    (/\ Called
     /\ call.op \in {"set_angles", "move_to_angles"}
     /\ call.pre.is_enabled
     /\ HasUnknown(call.args.angles)
     /\ result # "raised") =>
        /\ result = "False"
        /\ out = (IF call.op = "set_angles"
                  THEN Arm_set_angles(ArmCtxOf(call.pre, call.args.fail),
                                      KnownOnly(call.args.angles), call.args.validate)
                  ELSE Arm_move_to_angles(ArmCtxOf(call.pre, call.args.fail),
                                          KnownOnly(call.args.angles), call.args.speed,
                                          call.args.blocking)).out

Range(o) == {o[i] : i \in 1 .. Len(o)}
IndexOf(o, e) == CHOOSE i \in 1 .. Len(o) : o[i] = e

\* index of the first step of q that names no pose of the table (0: none)
FirstBad(q) ==
    IF \A i \in 1 .. Len(q) : q[i][1] \in DOMAIN poses THEN 0
    ELSE CHOOSE i \in 1 .. Len(q) :
             /\ q[i][1] \notin DOMAIN poses
             /\ \A j \in 1 .. i - 1 : q[j][1] \in DOMAIN poses

StepPause(st, pause_between) == IF Len(st) >= 3 THEN st[3] ELSE pause_between

\* C6: execute_sequence starts its steps in list order, each after the
\* previous one's blocking move and pause; at the first failing step it logs
\* that step's 1-based index and returns false with nothing issued for that
\* step or any later one, the earlier steps having been carried out; it
\* returns true only if every step succeeded.
C6_SequenceFailFast ==
    (Called /\ call.op = "execute_sequence" /\ result # "raised") =>
        LET q == call.args.sequence
            k == FirstBad(q)
            n == IF k = 0 THEN Len(q) ELSE k
            m == IF k = 0 THEN Len(q) ELSE k - 1
            EndOf(i) == IF i < n THEN IndexOf(out, EvStep(i + 1)) - 1
                        ELSE Len(out)
        IN  /\ SelectSeq(out, LAMBDA e : e[1] = "step") = [i \in 1 .. n |-> EvStep(i)]
            /\ result = IF k = 0 THEN "True" ELSE "False"
            /\ SelectSeq(out, LAMBDA e : e[1] = "seq_failed")
                   = IF k = 0 THEN <<>> ELSE <<EvSeqFailed(k)>>
            /\ k > 0 => /\ out[Len(out)] = EvSeqFailed(k)
                        /\ out[Len(out) - 1] = EvStep(k)
            /\ \A i \in 1 .. m :
                   out[EndOf(i)] = EvWait(StepPause(q[i], call.args.pause_between))
            /\ IF m = 0
               THEN servos = call.pre.servos
                    /\ current_pose_name = call.pre.current_pose_name
               ELSE /\ current_pose_name = q[m][1]
                    /\ \A e \in Range(poses[q[m][1]]) :
                           e[1] \in DOMAIN servos =>
                               servos[e[1]].current_angle
                                   = NearestBound(servos[e[1]], Arm_calibrated(e[1], e[2]))

C6_Witness ==
    /\ Called
    /\ call.op = "execute_sequence"
    /\ Len(call.args.sequence) = 2
    /\ FirstBad(call.args.sequence) = 2
    /\ result = "False"
    /\ out[Len(out)] = EvSeqFailed(2)
    /\ Pulses(out) # <<>>
    /\ current_pose_name = call.args.sequence[1][1]

\* the entries of map m that move_to_angles plans as timed moves on servos sv
Planned(sv, m) ==
    SelectSeq(m, LAMBDA e : e[1] \in DOMAIN sv /\ Servo_get_angle(sv[e[1]]) # None)

Delta(sv, e) == RAbs(RSub(Arm_calibrated(e[1], e[2]), Servo_get_angle(sv[e[1]])))

RECURSIVE MaxTime(_, _, _, _)
MaxTime(sv, pm, speed, i) ==
    IF i > Len(pm) THEN I(0)
    ELSE RMax(RDiv(Delta(sv, pm[i]), speed), MaxTime(sv, pm, speed, i + 1))

SyncCase ==
    /\ Called
    /\ call.op = "move_to_angles"
    /\ result = "True"
    /\ call.pre.is_enabled
    /\ Len(Planned(call.pre.servos, call.args.angles)) >= 2
    /\ \A e \in Range(Planned(call.pre.servos, call.args.angles)) :
           ~call.pre.servos[e[1]].continuous
    /\ RLt(I(0), MaxTime(call.pre.servos, Planned(call.pre.servos, call.args.angles),
                         Arm_speed(call.args.speed), 1))

\* C7 as stated: in move_to_angles over several position joints with known
\* angles and max_time > 0, every joint with delta_i > 0 is driven at
\* delta_i / max_time and its computed move time is max_time.
C7_ProportionalSpeeds ==
    SyncCase =>
        LET sv == call.pre.servos
            pm == Planned(sv, call.args.angles)
            mt == MaxTime(sv, pm, Arm_speed(call.args.speed), 1)
        IN  \A e \in Range(pm) :
                RLt(I(0), Delta(sv, e)) =>
                    /\ EvSpeed(sv[e[1]].channel, RDiv(Delta(sv, e), mt)) \in Range(out)
                    /\ EvMoveTime(sv[e[1]].channel, mt) \in Range(out)

\* C7 amended: every joint whose clamped target is at least 0.5 degrees away
\* is driven at max(1.0, delta_i / max_time) over |clamped target - current|
\* divided by that speed; a joint nearer than 0.5 degrees is not stepped; the
\* computed move time equals max_time for every joint whose target lies in its
\* range with delta_i >= 0.5 and delta_i / max_time >= 1.
C7_FlooredSpeeds ==
    SyncCase =>
        LET sv == call.pre.servos
            pm == Planned(sv, call.args.angles)
            mt == MaxTime(sv, pm, Arm_speed(call.args.speed), 1)
        IN  \A e \in Range(pm) :
                LET j == sv[e[1]]
                    tgt == Arm_calibrated(e[1], e[2])
                    sd == RAbs(RSub(NearestBound(j, tgt), j.current_angle))
                    sp == RMax(I(1), RDiv(Delta(sv, e), mt))
                IN  /\ RLe(Q(1, 2), sd) =>
                           /\ EvSpeed(j.channel, sp) \in Range(out)
                           /\ EvMoveTime(j.channel, RDiv(sd, sp)) \in Range(out)
                    /\ RLt(sd, Q(1, 2)) =>
                           \A x \in Range(out) :
                               ~(x[1] \in {"speed", "move_time", "pulse"}
                                 /\ x[2] = j.channel)
                    /\ (InRange(j, tgt) /\ RLe(Q(1, 2), Delta(sv, e))
                        /\ RLe(mt, Delta(sv, e))) =>
                           EvMoveTime(j.channel, mt) \in Range(out)

C7_Witness ==
    /\ SyncCase
    /\ \E x, y \in Range(out) :
           /\ x[1] = "move_time" /\ y[1] = "move_time"
           /\ x[2] # y[2]
           /\ <<x[3], x[4]>> = <<y[3], y[4]>>
           /\ \E u, v \in Range(out) :
                  /\ u[1] = "speed" /\ v[1] = "speed"
                  /\ u[2] = x[2] /\ v[2] = y[2]
                  /\ RLt(<<u[3], u[4]>>, <<v[3], v[4]>>)

\* position of the joint driving channel ch in the map m
MapIndex(sv, m, ch) ==
    CHOOSE i \in 1 .. Len(m) : m[i][1] \in DOMAIN sv /\ sv[m[i][1]].channel = ch

ContinuousMove ==
    /\ Called
    /\ call.op \in {"set_angle", "move_to", "home", "neutral"}
    /\ call.pre.continuous

\* C9: a continuous servo asked to move by at least min_move_deg at a nonzero
\* speed factor issues exactly the drive pulse (above stop_pulse for a positive
\* delta, below for a negative one, reversed by invert), a wait of
\* |delta| / (degrees_per_second * factor), then stop_pulse, and ends with
\* estimated_position = current_angle = the clamped target.
C9_DriveWaitStop ==
    (ContinuousMove /\ result = "True") =>
        LET s == call.pre
            tgt == NearestBound(s, call.angle)
            delta == RSub(tgt, s.estimated_position)
            factor == Servo_normalize_speed(call.speed)
        IN  (RLe(s.min_move_deg, RAbs(delta)) /\ factor # I(0)) =>
                /\ Len(out) = 3
                /\ out[1][1] = "pulse" /\ out[1][2] = s.channel
                /\ (out[1][3] > s.stop_pulse) <=> (RLt(I(0), delta) # s.invert)
                /\ (out[1][3] < s.stop_pulse) <=> (RLt(delta, I(0)) # s.invert)
                /\ out[2] = EvWait(RDiv(RAbs(delta), RMul(s.degrees_per_second, factor)))
                /\ out[3] = EvPulse(s.channel, s.stop_pulse)
                /\ servo.estimated_position = tgt
                /\ servo.current_angle = tgt

C9_Witness ==
    /\ ContinuousMove
    /\ call.op = "move_to"
    /\ call.angle = I(90)
    /\ call.speed = I(100)
    /\ call.pre.estimated_position = I(0)
    /\ call.pre.stop_pulse = 1500
    /\ call.pre.speed_pulse_range = 100
    /\ call.pre.degrees_per_second = I(120)
    /\ out = <<EvPulse(1, 1600), EvWait(Q(3, 4)), EvPulse(1, 1500)>>
    /\ servo.estimated_position = I(90)
    /\ servo.current_angle = I(90)

\* C10: a continuous servo asked to move by less than min_move_deg issues
\* nothing on its channel, sets estimated_position and current_angle to the
\* clamped target, and returns true.
C10_Deadband ==
    ContinuousMove =>
        LET s == call.pre
            tgt == NearestBound(s, call.angle)
        IN  RLt(RAbs(RSub(tgt, s.estimated_position)), s.min_move_deg) =>
                /\ out = <<>>
                /\ servo.estimated_position = tgt
                /\ servo.current_angle = tgt
                /\ result = "True"

C10_Witness ==
    /\ ContinuousMove
    /\ call.pre.estimated_position # NearestBound(call.pre, call.angle)
    /\ RLt(RAbs(RSub(NearestBound(call.pre, call.angle), call.pre.estimated_position)),
           call.pre.min_move_deg)
    /\ out = <<>>
    /\ servo.estimated_position = NearestBound(call.pre, call.angle)
    /\ result = "True"

\* what the caller of a controller call that ended in context a receives
Outcome(a) == IF a.raised THEN "raised" ELSE a.ret

\* C11: go_to_pose with a name absent from the pose table returns false,
\* issues nothing and leaves current_pose_name and the servos as they were;
\* with a known name it does exactly what move_to_angles does with that
\* pose's angle map and sets current_pose_name to the name if and only if the
\* move returns true; a disabled controller refuses the move and keeps
\* current_pose_name.
C11_PoseRecordedOnSuccess ==
    (Called /\ call.op = "go_to_pose") =>
        /\ IF call.args.pose_name \notin DOMAIN poses
           THEN /\ result = "False"
                /\ out = <<>>
                /\ servos = call.pre.servos
                /\ current_pose_name = call.pre.current_pose_name
           ELSE Let1(Arm_move_to_angles(ArmCtxOf(call.pre, call.args.fail),
                                        poses[call.args.pose_name], call.args.speed,
                                        call.args.blocking),
                     LAMBDA mv :
                         /\ out = mv.out
                         /\ servos = mv.servos
                         /\ result = Outcome(mv)
                         /\ current_pose_name
                                = IF Outcome(mv) = "True" THEN call.args.pose_name
                                  ELSE call.pre.current_pose_name)
        /\ Let1(Arm_go_to_pose(ArmCtxOf([call.pre EXCEPT !.is_enabled = FALSE],
                                        call.args.fail),
                               call.args.pose_name, call.args.speed, call.args.blocking),
                LAMBDA off :
                    /\ Outcome(off) = "False"
                    /\ off.out = <<>>
                    /\ off.current_pose_name = call.pre.current_pose_name)

C11_Witness ==
    /\ Called
    /\ call.op = "go_to_pose"
    /\ call.args.pose_name = "ready"
    /\ call.pre.current_pose_name = "home"
    /\ result = "True"
    /\ Pulses(out) # <<>>
    /\ current_pose_name = "ready"

\* C12: when the output fails during a Servo operation (here the one bus
\* transfer of a position servo's set_angle), the operation returns false to
\* its caller instead of raising, and current_angle and estimated_position
\* keep the values they had before the call.
C12_OutputFailureReported ==
    (Called /\ call.op = "set_angle" /\ ~call.pre.continuous /\ call.fail = 1) =>
        /\ result = "False"
        /\ servo.current_angle = call.pre.current_angle
        /\ servo.estimated_position = call.pre.estimated_position

\* the pulse of logical angle a: _angle_to_pulse(_apply_calibration(a))
PulseOf(s, a) == Servo_angle_to_pulse(s, Servo_apply_calibration(s, a))

\* angles the mapping is compared at: every 5 degrees from -20 to 210, and
\* quarter degrees around the ends of the range
GridAngles == {I(5 * k) : k \in -4 .. 42} \cup {Q(k, 4) : k \in -6 .. 6}
                  \cup {Q(720 + k, 4) : k \in -6 .. 6}

\* a position servo has just been given the angle as is (no clamp before the
\* mapping) and the pulse went out
MappedCall ==
    /\ Called
    /\ call.op = "set_angle"
    /\ ~call.validate
    /\ ~call.pre.continuous
    /\ result = "True"

\* C13: the pulse set_angle issues for an angle is the mapping's value there,
\* and the mapping is monotonic in the angle: non-decreasing for a
\* non-inverted servo and non-increasing for an inverted one, whatever
\* offset_deg is.
C13_MonotonicMapping ==
    MappedCall =>
        /\ out = <<EvPulse(servo.channel, PulseOf(servo, call.angle))>>
        /\ \A a \in GridAngles \cup Angles :
               /\ RLt(a, call.angle) =>
                      IF servo.invert THEN PulseOf(servo, a) >= out[1][3]
                      ELSE PulseOf(servo, a) <= out[1][3]
               /\ RLt(call.angle, a) =>
                      IF servo.invert THEN PulseOf(servo, a) <= out[1][3]
                      ELSE PulseOf(servo, a) >= out[1][3]

C13_Witness ==
    /\ MappedCall
    /\ servo.invert
    /\ servo.offset_deg = I(-10)
    /\ call.angle = I(45)
    /\ PulseOf(servo, I(40)) > out[1][3]
    /\ PulseOf(servo, I(50)) < out[1][3]
    /\ PulseOf(servo, I(-20)) = PulseOf(servo, I(-15))

\* the angle a set_angle call stores and maps
SetTarget == IF call.validate THEN NearestBound(call.pre, call.angle) ELSE call.angle

\* a position servo has just been set to one end of its range
EndCall ==
    /\ Called
    /\ call.op = "set_angle"
    /\ ~call.pre.continuous
    /\ result = "True"
    /\ SetTarget \in {servo.min_angle, servo.max_angle}

\* the end that maps to min_pulse when offset_deg is 0
AtLowEnd == SetTarget = (IF servo.invert THEN servo.max_angle ELSE servo.min_angle)

C15_SetAngleIdempotent ==
    (/\ Called
     /\ call.op = "set_angle"
     /\ ~call.pre.continuous
     /\ InRange(call.pre, call.angle)
     /\ result = "True") =>
        /\ Len(Pulses(out)) = 1
        /\ servo.current_angle = call.angle
        /\ Let1(Servo_set_angle(Ctx(servo, 0), call.angle, call.validate), LAMBDA again :
               /\ ~again.raised
               /\ again.out = out
               /\ again.s = servo
               /\ again.s.current_angle = call.angle)

\* the second of two equal calls
C15_Witness ==
    /\ Called
    /\ call.op = "set_angle"
    /\ ~call.pre.continuous
    /\ call.angle = I(45)
    /\ call.pre.current_angle = I(45)
    /\ call.pre.target_angle = I(45)
    /\ result = "True"
    /\ servo = call.pre
    /\ out = <<EvPulse(servo.channel, PulseOf(servo, I(45)))>>

\* the calibrated angle of the angle a set_angle call maps
SetCalibrated ==
    IF call.pre.invert
    THEN RSub(call.pre.max_angle,
              RSub(RAdd(SetTarget, call.pre.offset_deg), call.pre.min_angle))
    ELSE RAdd(SetTarget, call.pre.offset_deg)

\* the fraction of the range at calibrated angle c, held within 0..1
RangeFraction(s, c) ==
    IF RLt(c, s.min_angle) THEN I(0)
    ELSE IF RLt(s.max_angle, c) THEN I(1)
    ELSE RDiv(RSub(c, s.min_angle), RSub(s.max_angle, s.min_angle))

\* integer p is a nearest integer of the rational x
NearestInt(p, x) == RLe(RAbs(RSub(I(p), x)), Q(1, 2))

\* C16: the pulse set_angle issues for calibrated angle c is
\* min_pulse + clamp((c - min_angle)/(max_angle - min_angle), 0, 1)
\* * (max_pulse - min_pulse) rounded to a nearest integer, within
\* [min_pulse, max_pulse]; it is the midpoint of min_pulse and max_pulse when
\* max_angle = min_angle.  With range 0..180 and pulses 500..2500 (no offset,
\* no invert) set_angle(90) issues 1500 and set_angle(200, validate=true)
\* issues 2500 and leaves current_angle at 180.
C16_PulseFormula ==
    (Called /\ call.op = "set_angle" /\ ~call.pre.continuous /\ result = "True") =>
        /\ Len(out) = 1
        /\ out[1][1] = "pulse"
        /\ out[1][2] = servo.channel
        /\ servo.min_pulse <= out[1][3] /\ out[1][3] <= servo.max_pulse
        /\ IF servo.min_angle = servo.max_angle
           THEN NearestInt(out[1][3], Q(servo.min_pulse + servo.max_pulse, 2))
           ELSE NearestInt(out[1][3],
                           RAdd(I(servo.min_pulse),
                                RMul(RangeFraction(servo, SetCalibrated),
                                     I(servo.max_pulse - servo.min_pulse))))
        /\ (/\ servo.min_angle = I(0) /\ servo.max_angle = I(180)
            /\ servo.min_pulse = 500 /\ servo.max_pulse = 2500
            /\ servo.offset_deg = I(0) /\ ~servo.invert) =>
               /\ call.angle = I(90) => out[1][3] = 1500
               /\ (call.angle = I(200) /\ call.validate) =>
                      out[1][3] = 2500 /\ servo.current_angle = I(180)

C16_Witness ==
    /\ Called
    /\ call.op = "set_angle"
    /\ ~servo.continuous
    /\ servo.min_angle = I(0) /\ servo.max_angle = I(180)
    /\ servo.offset_deg = I(0) /\ ~servo.invert
    /\ call.angle = I(200)
    /\ call.validate
    /\ out = <<EvPulse(servo.channel, 2500)>>
    /\ servo.current_angle = I(180)

\* a configuration a Servo can be safely commanded with
ValidConfig(s) ==
    /\ RLt(s.min_angle, s.max_angle)
    /\ s.min_pulse < s.max_pulse
    /\ InRange(s, s.home_angle)
    /\ InRange(s, s.neutral_angle)

\* C17: a Servo with an invalid configuration (min_angle >= max_angle,
\* min_pulse >= max_pulse, or home_angle or neutral_angle outside the range)
\* is never constructed, so no such servo ever accepts a command.
C17_InvalidConfigRejected == (Called /\ result = "True") => ValidConfig(servo)

\* angle 0 for every joint the controller owns, in the order of self.servos
AllZero == [i \in 1 .. Len(ServoNames) |-> <<ServoNames[i], I(0)>>]

\* C18: home() and neutral() do exactly what go_to_pose of that name does
\* when the pose table contains the name (current_pose_name becomes the name
\* when the move returns true), and otherwise exactly what move_to_angles
\* does with angle 0 for every joint; a disabled controller refuses both.
C18_HomeNeutralDelegate ==
    (Called /\ call.op \in {"home", "neutral"}) =>
        /\ Let1(IF call.op \in DOMAIN poses
                THEN Arm_go_to_pose(ArmCtxOf(call.pre, call.args.fail), call.op,
                                    call.args.speed, call.args.blocking)
                ELSE Arm_move_to_angles(ArmCtxOf(call.pre, call.args.fail), AllZero,
                                        call.args.speed, call.args.blocking),
                LAMBDA e :
                    /\ out = e.out
                    /\ servos = e.servos
                    /\ result = Outcome(e)
                    /\ current_pose_name = e.current_pose_name)
        /\ (call.op \in DOMAIN poses /\ result = "True") => current_pose_name = call.op
        /\ call.op \notin DOMAIN poses => current_pose_name = call.pre.current_pose_name
        /\ Let1(IF call.op = "home"
                THEN Arm_home(ArmCtxOf([call.pre EXCEPT !.is_enabled = FALSE],
                                       call.args.fail),
                              call.args.speed, call.args.blocking)
                ELSE Arm_neutral(ArmCtxOf([call.pre EXCEPT !.is_enabled = FALSE],
                                          call.args.fail),
                                 call.args.speed, call.args.blocking),
                LAMBDA off :
                    /\ Outcome(off) = "False"
                    /\ off.out = <<>>
                    /\ off.servos = call.pre.servos)

C18_Witness ==
    /\ Called
    /\ call.op = "neutral"
    /\ "neutral" \in DOMAIN poses
    /\ call.pre.current_pose_name = "home"
    /\ result = "True"
    /\ Pulses(out) # <<>>
    /\ current_pose_name = "neutral"
    /\ servos["shoulder"].current_angle = I(90)

\* a position servo with a known angle has just completed a move_to (or home
\* or neutral) at a given speed, to a target at least 0.5 degrees away
SteppedMove ==
    /\ Called
    /\ call.op \in {"move_to", "home", "neutral"}
    /\ ~call.pre.continuous
    /\ call.pre.current_angle # None
    /\ call.speed # None
    /\ result = "True"
    /\ RLe(Q(1, 2), RAbs(RSub(NearestBound(call.pre, call.angle), call.pre.current_angle)))

\* move_time * smooth_hz of the move, with move_time = |delta| / speed
StepsExact ==
    RMul(RDiv(RAbs(RSub(NearestBound(call.pre, call.angle), call.pre.current_angle)),
              call.speed),
         call.pre.smooth_hz)

\* the largest integer not above x, for 0 <= x < MaxSteps + 1
Floor(x) == CHOOSE n \in 0 .. MaxSteps : RLe(I(n), x) /\ RLt(x, I(n + 1))

\* the pulses of `steps` equal steps from the start angle to the target
StepPulses(steps) ==
    [i \in 1 .. steps + 1 |->
        EvPulse(call.pre.channel,
                PulseOf(call.pre,
                        RAdd(call.pre.current_angle,
                             RMul(RSub(NearestBound(call.pre, call.angle),
                                       call.pre.current_angle),
                                  Q(i - 1, steps)))))]

\* C19 as stated: the move issues steps + 1 pulses with
\* steps = max(1, round(move_time * smooth_hz)), the i-th for the angle
\* current + delta * i / steps.
C19_RoundedSteps == SteppedMove => Pulses(out) = StepPulses(IMax(1, IntRound(StepsExact)))

\* C19 amended: steps = max(1, floor(move_time * smooth_hz)); the move issues
\* steps + 1 pulses, the i-th (i = 0..steps) for the angle
\* current + delta * i / steps, so the first is the start angle's pulse, the
\* last the target's, and the pulses never turn back on the way.
C19_TruncatedSteps ==
    SteppedMove =>
        /\ Pulses(out) = StepPulses(IMax(1, Floor(StepsExact)))
        /\ Pulses(out)[1] = EvPulse(servo.channel, PulseOf(servo, call.pre.current_angle))
        /\ Pulses(out)[Len(Pulses(out))]
               = EvPulse(servo.channel, PulseOf(servo, NearestBound(servo, call.angle)))
        /\ \A i \in 1 .. Len(Pulses(out)) - 1 :
               IF RLt(call.pre.current_angle, NearestBound(servo, call.angle)) # servo.invert
               THEN Pulses(out)[i][3] <= Pulses(out)[i + 1][3]
               ELSE Pulses(out)[i][3] >= Pulses(out)[i + 1][3]
        /\ servo.current_angle = NearestBound(servo, call.angle)

C19_Witness ==
    /\ SteppedMove
    /\ call.op = "move_to"
    /\ call.pre.current_angle = I(3)
    /\ call.angle = I(90)
    /\ call.speed = I(90)
    /\ Len(Pulses(out)) = 10
    /\ servo.current_angle = I(90)

\* a position servo has just completed a move_to, home or neutral
PositionMove ==
    /\ Called
    /\ call.op \in {"move_to", "home", "neutral"}
    /\ ~call.pre.continuous
    /\ result = "True"

\* C20: a completed move_to of a position servo ends with current_angle (and
\* target_angle) equal to the clamped target; with no speed or an unknown
\* current angle it issues exactly one pulse, the target's; with a target less
\* than 0.5 degrees from the current angle it issues nothing; otherwise its
\* last pulse is the target's.
C20_MoveEndsAtTarget ==
    PositionMove =>
        /\ servo.current_angle = NearestBound(servo, call.angle)
        /\ servo.target_angle = NearestBound(servo, call.angle)
        /\ IF call.speed = None \/ call.pre.current_angle = None
           THEN out = <<EvPulse(servo.channel,
                                PulseOf(servo, NearestBound(servo, call.angle)))>>
           ELSE IF RLt(RAbs(RSub(NearestBound(servo, call.angle),
                                 call.pre.current_angle)), Q(1, 2))
           THEN out = <<>>
           ELSE /\ Len(Pulses(out)) >= 2
                /\ Pulses(out)[Len(Pulses(out))]
                       = EvPulse(servo.channel,
                                 PulseOf(servo, NearestBound(servo, call.angle)))

C20_Witness ==
    /\ PositionMove
    /\ call.op = "move_to"
    /\ call.speed = I(90)
    /\ call.pre.current_angle = I(0)
    /\ call.angle = Q(1, 4)
    /\ out = <<>>
    /\ servo.current_angle = Q(1, 4)

\* a continuous servo has just completed a call that asked for a move of at
\* least min_move_deg
DrivenCall ==
    /\ ContinuousMove
    /\ result = "True"
    /\ RLe(call.pre.min_move_deg,
           RAbs(RSub(NearestBound(call.pre, call.angle), call.pre.estimated_position)))

\* the speed factor as stated: a value <= 1.0 taken as it is
FactorAsIs(speed) ==
    IF speed = None THEN I(1)
    ELSE IF RLe(speed, I(1)) THEN speed
    ELSE IF RLe(speed, I(100)) THEN RDiv(speed, I(100))
    ELSE I(1)

\* the speed factor with a value <= 0 giving 0
FactorFloored(speed) == IF speed # None /\ RLe(speed, I(0)) THEN I(0) ELSE FactorAsIs(speed)

\* what a continuous move at speed factor f issues
FactorOutput(f) ==
    IF f = I(0) THEN <<EvPulse(call.pre.channel, call.pre.stop_pulse)>>
    ELSE <<out[1],
           EvWait(RDiv(RAbs(RSub(NearestBound(call.pre, call.angle),
                                 call.pre.estimated_position)),
                       RMul(call.pre.degrees_per_second, f))),
           EvPulse(call.pre.channel, call.pre.stop_pulse)>>

\* C21 as stated: the factor is 1.0 for an absent speed, the value itself for
\* a value <= 1.0, the value / 100 for a value in (1, 100], 1.0 above 100, and
\* the move is timed by it.
C21_FactorAsIs ==
    DrivenCall =>
        /\ Servo_normalize_speed(call.speed) = FactorAsIs(call.speed)
        /\ out = FactorOutput(FactorAsIs(call.speed))

\* C21 amended: the same with a value <= 0 giving factor 0, so that the factor
\* lies in [0, 1]; at factor 0 a move above the deadband issues stop_pulse
\* only, waits for nothing and leaves estimated_position and current_angle
\* unchanged.
C21_FactorInUnitRange ==
    DrivenCall =>
        /\ Servo_normalize_speed(call.speed) = FactorFloored(call.speed)
        /\ RLe(I(0), FactorFloored(call.speed)) /\ RLe(FactorFloored(call.speed), I(1))
        /\ out = FactorOutput(FactorFloored(call.speed))
        /\ FactorFloored(call.speed) = I(0) =>
               /\ servo.estimated_position = call.pre.estimated_position
               /\ servo.current_angle = call.pre.current_angle

C21_Witness ==
    /\ DrivenCall
    /\ call.op = "move_to"
    /\ call.speed = I(-5)
    /\ call.angle = I(90)
    /\ call.pre.estimated_position = I(0)
    /\ out = <<EvPulse(servo.channel, servo.stop_pulse)>>
    /\ servo.estimated_position = I(0)

\* a continuous servo has just completed a timed move: drive, wait, stop
TimedMove == DrivenCall /\ Len(out) = 3

\* the signed distance of the drive pulse from stop_pulse
DriveOffset == out[1][3] - call.pre.stop_pulse

\* C22: the drive pulse of a continuous move is stop_pulse + direction *
\* max(1, round(speed_pulse_range * factor)), direction being the sign of
\* delta, negated by invert: it is at least 1 microsecond and at most
\* max(1, speed_pulse_range) away from stop_pulse, and above stop_pulse
\* exactly when (delta > 0) differs from invert.
C22_DrivePulse ==
    TimedMove =>
        /\ out[1][1] = "pulse" /\ out[1][2] = call.pre.channel
        /\ Abs(DriveOffset) >= 1
        /\ Abs(DriveOffset) <= IMax(1, call.pre.speed_pulse_range)
        /\ (DriveOffset > 0)
               <=> (RLt(call.pre.estimated_position, NearestBound(call.pre, call.angle))
                        # call.pre.invert)
        /\ IF RLe(RMul(I(call.pre.speed_pulse_range), FactorFloored(call.speed)), Q(1, 2))
           THEN Abs(DriveOffset) = 1
           ELSE NearestInt(Abs(DriveOffset),
                           RMul(I(call.pre.speed_pulse_range), FactorFloored(call.speed)))

C22_Witness ==
    /\ TimedMove
    /\ call.pre.invert
    /\ call.speed = Q(1, 1000)
    /\ RLt(call.pre.estimated_position, NearestBound(call.pre, call.angle))
    /\ out[1] = EvPulse(servo.channel, servo.stop_pulse - 1)

\* C23: Servo.disable() issues a channel-disable and Servo.stop() issues
\* exactly stop_pulse on a continuous servo and nothing on a position servo;
\* both return normally and leave current_angle, target_angle and
\* estimated_position as they were.
C23_StopDisableFrame ==
    (Called /\ call.op \in {"stop", "disable"} /\ call.fail = 0) =>
        /\ result = "None"
        /\ out = (IF call.op = "disable" THEN <<EvDisable(call.pre.channel)>>
                  ELSE IF call.pre.continuous
                       THEN <<EvPulse(call.pre.channel, call.pre.stop_pulse)>>
                  ELSE <<>>)
        /\ servo = call.pre

\* the pulses of o on channel ch
ChanPulses(o, ch) == SelectSeq(o, LAMBDA e : e[1] = "pulse" /\ e[2] = ch)

\* everything of o that concerns channel ch
ChanEvents(o, ch) == SelectSeq(o, LAMBDA e : e[2] = ch)

\* the one pulse of an immediate set_angle of map entry e on servos sv
SetPulse(sv, e) ==
    EvPulse(sv[e[1]].channel,
            PulseOf(sv[e[1]], NearestBound(sv[e[1]], Arm_calibrated(e[1], e[2]))))

\* an enabled controller has just completed a move_to_angles call
CompletedMove ==
    /\ Called
    /\ call.op = "move_to_angles"
    /\ call.pre.is_enabled
    /\ result = "True"

\* C24: in move_to_angles a position joint whose current angle is unknown
\* gets exactly one pulse, that of its clamped target, and only the joints
\* with a known angle count in max_time, the one wait of a blocking call;
\* when max_time is 0 each of those joints gets one immediate set_angle and
\* the call waits for nothing.
C24_UnknownAndZeroTime ==
    CompletedMove =>
        /\ \A e \in Range(call.args.angles) :
               (/\ e[1] \in DOMAIN servos
                /\ ~call.pre.servos[e[1]].continuous
                /\ call.pre.servos[e[1]].current_angle = None) =>
                   ChanEvents(out, servos[e[1]].channel) = <<SetPulse(call.pre.servos, e)>>
        /\ SelectSeq(out, LAMBDA x : x[1] = "wait")
               = IF /\ call.args.blocking
                    /\ RLt(I(0), MaxTime(call.pre.servos,
                                         Planned(call.pre.servos, call.args.angles),
                                         Arm_speed(call.args.speed), 1))
                 THEN <<EvWait(MaxTime(call.pre.servos,
                                       Planned(call.pre.servos, call.args.angles),
                                       Arm_speed(call.args.speed), 1))>>
                 ELSE <<>>
        /\ MaxTime(call.pre.servos, Planned(call.pre.servos, call.args.angles),
                   Arm_speed(call.args.speed), 1) = I(0) =>
               \A e \in Range(Planned(call.pre.servos, call.args.angles)) :
                   ChanEvents(out, servos[e[1]].channel) = <<SetPulse(call.pre.servos, e)>>

C24_Witness ==
    /\ CompletedMove
    /\ call.args.angles = <<<<"shoulder", I(90)>>, <<"elbow", I(1)>>>>
    /\ call.args.blocking
    /\ call.pre.servos["shoulder"].current_angle = None
    /\ call.pre.servos["elbow"].current_angle = I(45)
    /\ calib["elbow"].offset_deg = I(0)
    /\ Len(ChanPulses(out, 0)) = 1
    /\ Len(ChanPulses(out, 1)) > 1
    /\ out[Len(out)] = EvWait(Q(44, 50))

\* C25: disable() and emergency_stop() attempt a channel-disable on every
\* joint and leave is_enabled false.
C25_DisableAllJoints ==
    (Called /\ call.op \in {"disable", "emergency_stop"}) =>
        /\ SelectSeq(out, LAMBDA e : e[1] = "disable") = DisableEvents(call.pre.servos)
        /\ ~is_enabled

\* the output of a continuous servo's call holds a pulse that drives it
DrivePulseIssued ==
    /\ ContinuousMove
    /\ \E i \in 1 .. Len(out) :
           out[i][1] = "pulse" /\ out[i][2] = call.pre.channel
               /\ out[i][3] # call.pre.stop_pulse

\* C26: when a call that issued a drive pulse on a continuous servo has
\* ended, by returning or by raising, the pulses it issued on the channel are
\* the drive pulse and then stop_pulse, nothing else.
C26_NeverLeftDriving ==
    DrivePulseIssued =>
        /\ Len(ChanPulses(out, call.pre.channel)) = 2
        /\ ChanPulses(out, call.pre.channel)[2]
               = EvPulse(call.pre.channel, call.pre.stop_pulse)

\* C27: after a successful set_angles or move_to_angles, get_current_angles()
\* gives, for every joint of the map commanded to an angle inside its range,
\* that logical angle, whatever calibration is loaded for the joint.
C27_ReadBackLogical ==
    (Called /\ call.op \in {"set_angles", "move_to_angles"} /\ result = "True") =>
        \A e \in Range(call.args.angles) :
            (e[1] \in DOMAIN servos /\ InRange(servos[e[1]], e[2])) =>
                Arm_get_current_angles(servos)[e[1]] = e[2]

\* joint name's Servo as it would be with the loaded calibration as its own
WithCalibration(sv, name) ==
    [sv[name] EXCEPT !.offset_deg = calib[name].offset_deg, !.invert = calib[name].invert]

\* C28: the angle the controller hands to a joint is the one the Servo's own
\* transform max_angle - ((angle + offset_deg) - min_angle) gives for the
\* loaded calibration, for every joint whatever its range, and the pulse
\* issued for an in-range angle is the pulse of that angle: the transform is
\* applied once.
C28_TransformAgrees ==
    (Called /\ call.op = "set_angles" /\ call.args.validate /\ result = "True") =>
        \A e \in Range(call.args.angles) :
            e[1] \in DOMAIN servos =>
                /\ Arm_calibrated(e[1], e[2])
                       = Servo_apply_calibration(WithCalibration(servos, e[1]), e[2])
                /\ InRange(servos[e[1]], e[2]) =>
                       ChanPulses(out, servos[e[1]].channel)
                           = <<EvPulse(servos[e[1]].channel,
                                       PulseOf(WithCalibration(servos, e[1]), e[2]))>>

\* a pose name is recorded (current_pose_name is not None)
PoseRecorded == ToString(current_pose_name) # ToString(None)

\* every joint that pose table entry m names is at the angle m commands
AtPose(sv, m) ==
    \A e \in Range(m) :
        e[1] \in DOMAIN sv =>
            sv[e[1]].current_angle = NearestBound(sv[e[1]], Arm_calibrated(e[1], e[2]))

\* C29: in every reachable state where current_pose_name is P, each joint
\* named in pose P is at the angle P commands for it.
C29_PoseNeverStale == PoseRecorded => AtPose(servos, poses[current_pose_name])

\* everything of o but the waits
NoWaits(o) == SelectSeq(o, LAMBDA e : e[1] # "wait")

Waits(o) == SelectSeq(o, LAMBDA e : e[1] = "wait")

\* C30: for a position servo, move_to with the other value of blocking, from
\* the same state with the same angle, speed and output behaviour, issues the
\* same pulses in the same order and ends in the same servo state with the
\* same result; only the blocking call waits, once between two samples.
C30_BlockingOnlyWaits ==
    (Called /\ call.op = "move_to" /\ ~call.pre.continuous) =>
        /\ Let1(Servo_move_to(Ctx(call.pre, call.fail), call.angle, call.speed,
                              ~call.blocking),
                LAMBDA other :
                    /\ ~other.over
                    /\ NoWaits(other.out) = NoWaits(out)
                    /\ other.s = servo
                    /\ other.raised <=> result = "raised"
                    /\ call.blocking => Waits(other.out) = <<>>)
        /\ ~call.blocking => Waits(out) = <<>>
        /\ (call.blocking /\ result = "True" /\ Len(Pulses(out)) >= 2) =>
               Len(Waits(out)) = Len(Pulses(out)) - 1

C30_Witness ==
    /\ Called
    /\ call.op = "move_to"
    /\ ~call.pre.continuous
    /\ call.blocking
    /\ result = "True"
    /\ Len(Pulses(out)) = 6
    /\ Len(Waits(out)) = 5
    /\ Waits(out)[1] = EvWait(Q(1, 10))

====
